---- MODULE Spec2Model ----
(***************************************************************************)
(* geolist: the Location Resolver (src/src/enrichers/artist_enricher.py)   *)
(* and the Geocoder (src/src/visualizers/map_visualizer.py).               *)
(*                                                                         *)
(* Python values are modelled by what the code can see of them:            *)
(*   None            [t |-> "None"]                                        *)
(*   str             [t |-> "str", s |-> <<tokens>>]; a token is "," or    *)
(*                   " " or an opaque run of other characters              *)
(*   dict            a function from keys to values (k in d is             *)
(*                   k \in DOMAIN d)                                       *)
(***************************************************************************)
EXTENDS Integers, Sequences, FiniteSets, TLC

----------------------------------------------------------------------------
(* Bounds of the model *)

MaxArtists == 2
MaxRuns == 2
MaxRerunArtists == 1
MaxGeoArtists == 2
MaxCachedLocations == 1
MaxTracks == 3
MaxOps == 3

(* Program constants *)

RATE_LIMIT == 1
MAX_WORKERS == 8
MAX_RETRIES == 3

----------------------------------------------------------------------------
(* Python values *)

PyNone == [t |-> "None"]
Str(s) == [t |-> "str", s |-> s]
S(tok) == Str(<<tok>>)
EmptyStr == Str(<<>>)

\* bool(v) for None and str
Truthy(v) == v.t = "str" /\ v.s # <<>>

\* d.get(k)
Get(d, k) == IF k \in DOMAIN d THEN d[k] ELSE PyNone

\* any(d.values())
AnyValues(d) == \E k \in DOMAIN d : Truthy(d[k])

----------------------------------------------------------------------------
(* Inputs: artist names, the directory's answers *)

NameList == <<"A", "B", "C", "D">>
ArtistNames == {NameList[i] : i \in 1..MaxArtists}

\* the library dict handed to enrich_locations: its keys in insertion order
Libraries == {SubSeq(NameList, 1, n) : n \in 0..MaxArtists}

ErrorMessages == {"timeout", "503"}

\* entries of result['artist-list']: the fields the code reads are optional
ArtistInfos ==
    { [id |-> S("mbid")],
      [id |-> S("mbid")] @@ ("begin-area" :> [name |-> S("X")])
                         @@ [country |-> S("Z")],
      [id |-> S("mbid")] @@ [area |-> [name |-> S("R")]] }

\* what mb.search_artists(artist=..., limit=1) does: raise, or return a result
Raise(msg) == [kind |-> "raise", msg |-> msg]
Result(lst) == [kind |-> "result", artist_list |-> lst]
DirectoryResponses ==
    {Raise(m) : m \in ErrorMessages} \cup {Result(<<>>)}
        \cup {Result(<<i>>) : i \in ArtistInfos}

----------------------------------------------------------------------------
(* ArtistEnricher: pure parts *)

InitialStats ==
    [total |-> 0, success |-> 0, failed |-> 0, no_data |-> 0, no_area |-> 0,
     no_country |-> 0, no_city |-> 0, errors |-> [m \in ErrorMessages |-> 0]]

\* self.stats[k] += 1
Incr(st, k) == [st EXCEPT ![k] = @ + 1]

\* mutant: a cache hit is counted twice
IncrFromCacheTwice(st) ==
    IF "from_cache" \in DOMAIN st
    THEN [st EXCEPT !["from_cache"] = @ + 2]
    ELSE st @@ [from_cache |-> 2]

\* self.stats['from_cache'] = self.stats.get('from_cache', 0) + 1
IncrFromCache(st) ==
    IF "from_cache" \in DOMAIN st
    THEN [st EXCEPT !["from_cache"] = @ + 1]
    ELSE st @@ [from_cache |-> 1]

\* mutant: the errors table is left alone
CountFailureOnly(st, msg) == [st EXCEPT !["failed"] = @ + 1]

\* self.stats['failed'] += 1; self.stats['errors'][str(e)] += 1
CountFailure(st, msg) ==
    [st EXCEPT !["failed"] = @ + 1, !["errors"][msg] = @ + 1]

UpdateLocationStats(st, origin_data) ==
    LET s1 == IF ~Truthy(Get(origin_data, "city")) THEN Incr(st, "no_city") ELSE st
        s2 == IF ~Truthy(Get(origin_data, "country")) THEN Incr(s1, "no_country") ELSE s1
    IN  IF ~Truthy(Get(origin_data, "area")) THEN Incr(s2, "no_area") ELSE s2

\* artist_info.get(k, {}).get('name')
NestedName(artist_info, k) ==
    IF k \in DOMAIN artist_info THEN Get(artist_info[k], "name") ELSE PyNone

\* the dict _extract_location_data builds before it classifies it
LocationFields(artist_info) ==
    [city |-> NestedName(artist_info, "begin-area"),
     country |-> Get(artist_info, "country"),
     area |-> NestedName(artist_info, "area"),
     status |-> S("success")]

\* the test "if any(origin_data.values())" of _extract_location_data
HasLocationData(origin_data) == AnyValues(origin_data)

\* what _extract_location_data returns for the dict it built
Classified(origin_data) ==
    IF HasLocationData(origin_data) THEN origin_data
    ELSE [origin_data EXCEPT !["status"] = S("no_location_data")]

NotFoundDescriptor == [status |-> S("not_found")]
ErrorDescriptor(msg) == [status |-> S("error"), error |-> S(msg)]

\* mutant: one attempt too many
ShouldRetryOnceMore(tries) == tries <= MAX_RETRIES

\* backoff.on_exception(..., max_tries=MAX_RETRIES): after the tries-th call
\* raised, call again?
ShouldRetry(tries) == tries < MAX_RETRIES

\* the descriptors the enricher writes into its cache
CacheableDescriptors ==
    {NotFoundDescriptor} \cup {Classified(LocationFields(i)) : i \in ArtistInfos}

\* cache file contents
FileMissing == [kind |-> "missing"]
FileCorrupt == [kind |-> "corrupt"]
FileDoc(d) == [kind |-> "doc", doc |-> d]
\* a file just opened with mode 'w', and a file that is not one document:
\* text as long as the document ext, overwritten from its start with less
FileTruncated == [kind |-> "empty"]
FileTorn(ext) == [kind |-> "torn", ext |-> ext]

\* what the file holds when a handle opened with 'w' is closed after
\* json.dump wrote the dict doc into its buffer, wholly or up to the
\* RuntimeError of a dict that changed size during the iteration: the
\* buffer goes to the start of the file, over what other handles put there
Flush(file, doc, complete) ==
    LET ext == IF file.kind = "doc" THEN file.doc
               ELSE IF file.kind = "torn" THEN file.ext ELSE <<>>
        covers == DOMAIN ext \subseteq DOMAIN doc
    IN  IF complete /\ covers THEN FileDoc(doc)
        ELSE FileTorn(IF covers THEN doc ELSE ext)

\* _load_cache
LoadCache(file) == IF file.kind = "doc" THEN file.doc ELSE <<>>

----------------------------------------------------------------------------
(* MapVisualizer: pure parts *)

\* str.join: sep.join(parts), on token sequences
RECURSIVE JoinTokens(_, _)
JoinTokens(sep, parts) ==
    IF parts = <<>> THEN <<>>
    ELSE IF Len(parts) = 1 THEN parts[1]
    ELSE parts[1] \o sep \o JoinTokens(sep, Tail(parts))

\* tok in s
Contains(s, tok) == \E i \in 1..Len(s) : s[i] = tok

\* index of the last occurrence of tok in s, 0 when there is none
LastIndex(s, tok) ==
    IF Contains(s, tok)
    THEN CHOOSE i \in 1..Len(s) : s[i] = tok /\ \A j \in (i+1)..Len(s) : s[j] # tok
    ELSE 0

\* s.rsplit(tok, 1)[0]
RSplitHead(s, tok) ==
    IF Contains(s, tok) THEN SubSeq(s, 1, LastIndex(s, tok) - 1) ELSE s

\* s.split(tok)
RECURSIVE SplitTokens(_, _)
SplitTokens(s, tok) ==
    IF ~Contains(s, tok) THEN <<s>>
    ELSE LET i == LastIndex(s, tok)
         IN  Append(SplitTokens(SubSeq(s, 1, i - 1), tok), SubSeq(s, i + 1, Len(s)))

\* _get_location_string
GetLocationString(artist_data) ==
    LET p1 == IF Truthy(Get(artist_data, "city")) THEN <<artist_data["city"].s>> ELSE <<>>
        p2 == IF Truthy(Get(artist_data, "area")) THEN Append(p1, artist_data["area"].s) ELSE p1
        p3 == IF Truthy(Get(artist_data, "country")) THEN Append(p2, artist_data["country"].s) ELSE p2
    IN  Str(JoinTokens(<<",", " ">>, p3))

\* mutant: only the first part is kept
ShorterLocationFirstPart(loc) == Str(SplitTokens(loc.s, ",")[1])

\* ','.join(location_str.rsplit(',', 1)[0].split(','))
ShorterLocation(loc) ==
    Str(JoinTokens(<<",">>, SplitTokens(RSplitHead(loc.s, ","), ",")))

\* the test "',' in location_str" that guards the degraded query
CanDegrade(loc) == Contains(loc.s, ",")

\* mutant: the status is not looked at
ParticipatesAnyStatus(data) == "origin" \in DOMAIN data

\* if 'origin' in data and data['origin'].get('status') == 'success'
Participates(data) ==
    "origin" \in DOMAIN data /\ Get(data["origin"], "status") = S("success")

\* a coordinate pair as a Python tuple, and as the list json.load gives back
PyTuple(v) == [kind |-> "tuple", v |-> v]
PyList(v) == [kind |-> "list", v |-> v]

\* tuple(x)
ToTuple(x) == PyTuple(x.v)

\* coords = (location.latitude, location.longitude)
CoordsOf(loc) == PyTuple(<<loc.latitude, loc.longitude>>)

\* json.dump / json.load of the geocode cache: tuples come back as lists
JsonRoundTrip(c) == [k \in DOMAIN c |-> PyList(c[k].v)]

InitialGeoStats ==
    [total_locations |-> 0, successful_geocodes |-> 0,
     successful_retry_geocodes |-> 0, failed_geocodes |-> 0, from_cache |-> 0,
     empty_locations |-> 0, errors |-> [m \in ErrorMessages |-> 0]]

\* what self.geolocator.geocode(q) does: raise, return None, or a Location
Found(lat, lng) == [kind |-> "location", latitude |-> lat, longitude |-> lng]
NoLocation == [kind |-> "none"]
Coordinates == {<<1, 2>>, <<3, 4>>}
GeocodeResponses ==
    {Raise(m) : m \in ErrorMessages} \cup {NoLocation}
        \cup {Found(c[1], c[2]) : c \in Coordinates}

\* origins the geocoder is handed
GeoArtistInfos ==
    { [id |-> S("mbid")],
      [id |-> S("mbid")] @@ [area |-> [name |-> S("R")]],
      [id |-> S("mbid")] @@ ("begin-area" :> [name |-> S("X")])
                         @@ [area |-> [name |-> S("R")]],
      [id |-> S("mbid")] @@ ("begin-area" :> [name |-> S("X")])
                         @@ [area |-> [name |-> S("R")]] @@ [country |-> S("Z")] }
GeoOrigins ==
    {NotFoundDescriptor, ErrorDescriptor("timeout")}
        \cup {Classified(LocationFields(i)) : i \in GeoArtistInfos}

\* ArtistRecords of the geocoder's input: with or without 'origin'
GeoRecords ==
    {[songs |-> <<>>]} \cup {[songs |-> <<>>, origin |-> o] : o \in GeoOrigins}

\* keys of the library in insertion order: any order of any of the names
GeoNames == {NameList[i] : i \in 1..MaxGeoArtists}
RECURSIVE Orders(_)
Orders(names) ==
    IF names = {} THEN {<<>>}
    ELSE UNION {{<<n>> \o o : o \in Orders(names \ {n})} : n \in names}
GeoKeyOrders == UNION {Orders(ns) : ns \in SUBSET GeoNames}

GeoLocationStrings ==
    {GetLocationString(o) : o \in GeoOrigins} \ {EmptyStr}

InitialLocationCaches ==
    UNION {[ks -> {PyList(c) : c \in Coordinates}] :
              ks \in {k \in SUBSET GeoLocationStrings : Cardinality(k) <= MaxCachedLocations}}

----------------------------------------------------------------------------
(* State *)

VARIABLES
    library,      \* keys of the library dict, in insertion order
    records,      \* artist name -> ArtistRecord (a dict; 'origin' optional)
    cache,        \* ArtistEnricher.cache
    cache_file,   \* contents of mb_cache.json
    stats,        \* ArtistEnricher.stats
    task,         \* per submitted _process_artist call: pc, tries, exc, data
    epc,          \* where enrich_locations is
    nxt,          \* index of the future the collecting loop waits for
    run,          \* number of enrich_locations calls made on this instance
    log,          \* history: per run and artist, what its lookup did
    glibrary,       \* the library handed to _process_artist_locations
    location_cache, \* MapVisualizer.location_cache
    geo_cache_file, \* contents of geocode_cache.json
    gstats,         \* MapVisualizer.stats
    artist_locations, \* the coordinate -> artist list dict being built
    gpc,            \* where _process_artist_locations / _geocode_location is
    gi,             \* index of the library item the loop is at
    location_str,   \* argument of the running _geocode_location call
    location,       \* its local variable location
    glog,           \* history: per library item, what its lookup did
    tracks,         \* the track items handed to SpotifyLibraryBuilder.build
    blibrary,       \* SpotifyLibraryBuilder.library
    library_file,   \* contents of the library file that save and load use
    bpc,            \* where the builder, or Geolist.run, is
    bi,             \* index of the track item the build loop is at
    blog,           \* history: the builder operations made and what they returned
    retval          \* how Geolist.run ended

evars == <<library, records, cache, cache_file, stats, task, epc, nxt, run, log>>
gvars == <<glibrary, location_cache, geo_cache_file, gstats, artist_locations,
           gpc, gi, location_str, location, glog>>
bvars == <<tracks, blibrary, library_file, bpc, bi, blog, retval>>
vars == <<evars, gvars, bvars>>

NoData == [none |-> TRUE]
Pending == [pending |-> TRUE]
Miss == [miss |-> TRUE]
Unknown == [unknown |-> TRUE]

LibNames == {library[i] : i \in 1..Len(library)}

NewTask == [pc |-> "queued", tries |-> 0, exc |-> "", data |-> NoData, buf |-> NoData]
NewLog == [hit |-> Unknown, resp |-> <<>>, sleeps |-> 0, ev |-> <<>>, out |-> Pending]

\* mutant: the query is made without the delay
NotSlept(ev, d) == ev

\* time.sleep(d), and the external call, in the order a worker makes them
Slept(ev, d) == Append(ev, [e |-> "sleep", d |-> d])
Queried(ev) == Append(ev, [e |-> "query", d |-> 0])

InitialRecord(a) ==
    [artist_id |-> S(a), artist_uri |-> S(a), songs |-> <<>>]

GeoUnused ==
    /\ glibrary = <<>>
    /\ location_cache = <<>>
    /\ geo_cache_file = FileMissing
    /\ gstats = InitialGeoStats
    /\ artist_locations = <<>>
    /\ gpc = "unused"
    /\ gi = 0
    /\ location_str = PyNone
    /\ location = PyNone
    /\ glog = <<>>

BuilderUnused ==
    /\ tracks = <<>>
    /\ blibrary = <<>>
    /\ library_file = FileMissing
    /\ bpc = "unused"
    /\ bi = 0
    /\ blog = <<>>
    /\ retval = PyNone

InitialCaches ==
    UNION {[names -> CacheableDescriptors] : names \in SUBSET ArtistNames}

Init ==
    /\ library \in Libraries
    /\ records = [a \in LibNames |-> InitialRecord(a)]
    /\ cache_file \in {FileMissing, FileCorrupt} \cup {FileDoc(c) : c \in InitialCaches}
    /\ cache = LoadCache(cache_file)
    /\ stats = InitialStats
    /\ task = [a \in LibNames |-> NewTask]
    /\ epc = "constructed"
    /\ nxt = 0
    /\ run = 0
    /\ log = <<>>
    /\ GeoUnused
    /\ BuilderUnused

----------------------------------------------------------------------------
(* enrich_locations: the submitting / collecting path *)

EnrichLocations ==
    /\ epc \in {"constructed", "returned"}
    /\ run < MaxRuns
    /\ run >= 1 => Len(library) <= MaxRerunArtists
    /\ stats' = [stats EXCEPT !["total"] = Len(library)]
    /\ task' = [a \in LibNames |-> NewTask]
    /\ log' = Append(log, [a \in LibNames |-> NewLog])
    /\ run' = run + 1
    /\ nxt' = 1
    /\ epc' = "collect"
    /\ UNCHANGED <<library, records, cache, cache_file, gvars, bvars>>

\* mutant: the record is replaced by one holding the origin
SetOriginOnly(rec, origin_data) == [origin |-> origin_data]

\* enriched_library[artist_name]['origin'] = origin_data
SetOrigin(rec, origin_data) ==
    [k \in DOMAIN rec \cup {"origin"} |-> IF k = "origin" THEN origin_data ELSE rec[k]]

\* artist_name, origin_data = future.result(); enriched_library[...]['origin'] = ...
\* mutant: result() does not wait for a task that has started
FutureDoneOrStarted(t) == t.pc # "queued"

\* future.result(), and the pool's shutdown, wait until the task is done
FutureDone(t) == t.pc = "done"

Collect ==
    /\ epc = "collect"
    /\ nxt <= Len(library)
    /\ LET a == library[nxt] IN
         /\ FutureDone(task[a])
         /\ records' = [records EXCEPT ![a] = SetOrigin(@, task[a].data)]
    /\ nxt' = nxt + 1
    /\ UNCHANGED <<library, cache, cache_file, stats, task, epc, run, log, gvars, bvars>>

\* the pool is shut down, then _print_stats divides by stats['total']
PrintStatsRaises(st) == st.total = 0

Finish ==
    /\ epc = "collect"
    /\ nxt > Len(library)
    /\ \A a \in LibNames : FutureDone(task[a])
    /\ epc' = IF PrintStatsRaises(stats) THEN "raised" ELSE "returned"
    /\ UNCHANGED <<library, records, cache, cache_file, stats, task, nxt, run, log, gvars, bvars>>

----------------------------------------------------------------------------
(* _process_artist / _get_artist_location: one worker's steps *)

Running == {a \in LibNames : task[a].pc \notin {"queued", "done"}}

SetTask(a, t) == task' = [task EXCEPT ![a] = t]
SetLog(a, l) == log' = [log EXCEPT ![run][a] = l]

Start(a) ==
    /\ epc = "collect"
    /\ task[a].pc = "queued"
    /\ Cardinality(Running) < MAX_WORKERS
    /\ SetTask(a, [task[a] EXCEPT !.pc = "check", !.tries = 1])
    /\ UNCHANGED <<library, records, cache, cache_file, stats, epc, nxt, run, log, gvars, bvars>>

\* mutant: a cached not_found is looked up again
InCacheUnlessNotFound(a) == a \in DOMAIN cache /\ cache[a] # NotFoundDescriptor

\* if artist_name in self.cache
InCache(a) == a \in DOMAIN cache

Check(a) ==
    /\ task[a].pc = "check"
    /\ SetTask(a, [task[a] EXCEPT !.pc = IF InCache(a) THEN "hit" ELSE "query"])
    /\ IF task[a].tries = 1
       THEN SetLog(a, [log[run][a] EXCEPT !.hit = IF a \in DOMAIN cache THEN cache[a] ELSE Miss])
       ELSE UNCHANGED log
    /\ UNCHANGED <<library, records, cache, cache_file, stats, epc, nxt, run, gvars, bvars>>

Hit(a) ==
    /\ task[a].pc = "hit"
    /\ stats' = IncrFromCache(stats)
    /\ SetTask(a, [task[a] EXCEPT !.pc = "hit_update"])
    /\ UNCHANGED <<library, records, cache, cache_file, epc, nxt, run, log, gvars, bvars>>

HitUpdate(a) ==
    /\ task[a].pc = "hit_update"
    /\ stats' = UpdateLocationStats(stats, cache[a])
    /\ SetTask(a, [task[a] EXCEPT !.pc = "done", !.data = cache[a]])
    /\ SetLog(a, [log[run][a] EXCEPT !.out = cache[a]])
    /\ UNCHANGED <<library, records, cache, cache_file, epc, nxt, run, gvars, bvars>>

\* time.sleep(self.RATE_LIMIT); result = mb.search_artists(...)
Query(a) ==
    /\ task[a].pc = "query"
    /\ \E r \in DirectoryResponses :
         /\ SetLog(a, [log[run][a] EXCEPT !.resp = Append(@, r),
                                          !.sleeps = @ + RATE_LIMIT,
                                          !.ev = Queried(Slept(@, RATE_LIMIT))])
         /\ IF r.kind = "raise"
            THEN IF ShouldRetry(task[a].tries)
                 THEN SetTask(a, [task[a] EXCEPT !.pc = "check", !.tries = @ + 1])
                 ELSE SetTask(a, [task[a] EXCEPT !.pc = "except", !.exc = r.msg])
            ELSE IF r.artist_list = <<>>
                 THEN SetTask(a, [task[a] EXCEPT !.pc = "not_found"])
                 ELSE SetTask(a, [task[a] EXCEPT !.pc = "extract",
                                                 !.data = LocationFields(r.artist_list[1])])
    /\ UNCHANGED <<library, records, cache, cache_file, stats, epc, nxt, run, gvars, bvars>>

NotFound(a) ==
    /\ task[a].pc = "not_found"
    /\ stats' = Incr(stats, "no_data")
    /\ SetTask(a, [task[a] EXCEPT !.pc = "write", !.data = NotFoundDescriptor])
    /\ UNCHANGED <<library, records, cache, cache_file, epc, nxt, run, log, gvars, bvars>>

Extract(a) ==
    /\ task[a].pc = "extract"
    /\ stats' = UpdateLocationStats(stats, task[a].data)
    /\ SetTask(a, [task[a] EXCEPT !.pc = "classify"])
    /\ UNCHANGED <<library, records, cache, cache_file, epc, nxt, run, log, gvars, bvars>>

Classify(a) ==
    /\ task[a].pc = "classify"
    /\ stats' = IF HasLocationData(task[a].data)
                THEN Incr(stats, "success") ELSE Incr(stats, "no_data")
    /\ SetTask(a, [task[a] EXCEPT !.pc = "write", !.data = Classified(@)])
    /\ UNCHANGED <<library, records, cache, cache_file, epc, nxt, run, log, gvars, bvars>>

\* mutant: the new entry is all the cache holds
CacheWriteOnly(c, a, d) == [k \in {a} |-> d]

\* mutant: the entry is not stored
CacheWriteDropped(c, a, d) == c

\* self.cache[artist_name] = origin_data
CacheWrite(c, a, d) == [k \in DOMAIN c \cup {a} |-> IF k = a THEN d ELSE c[k]]

Write(a) ==
    /\ task[a].pc = "write"
    /\ cache' = CacheWrite(cache, a, task[a].data)
    /\ SetTask(a, [task[a] EXCEPT !.pc = "save_open"])
    /\ UNCHANGED <<library, records, cache_file, stats, epc, nxt, run, log, gvars, bvars>>

\* _save_cache: open(self.cache_file, 'w') truncates the file
SaveOpen(a) ==
    /\ task[a].pc = "save_open"
    /\ cache_file' = FileTruncated
    /\ SetTask(a, [task[a] EXCEPT !.pc = "save_dump"])
    /\ UNCHANGED <<library, records, cache, stats, epc, nxt, run, log, gvars, bvars>>

\* _save_cache: json.dump(self.cache, f) starts to iterate over the dict
SaveDump(a) ==
    /\ task[a].pc = "save_dump"
    /\ SetTask(a, [task[a] EXCEPT !.pc = "save_close", !.buf = cache])
    /\ UNCHANGED <<library, records, cache, cache_file, stats, epc, nxt, run, log, gvars, bvars>>

\* the dump ends, whole unless the dict grew under it, and the file is
\* closed (an exception is printed by _save_cache); then return origin_data
DumpOutcomes(buf, c) == IF DOMAIN c = DOMAIN buf THEN {TRUE} ELSE {TRUE, FALSE}

SaveClose(a) ==
    /\ task[a].pc = "save_close"
    /\ \E complete \in DumpOutcomes(task[a].buf, cache) :
          cache_file' = Flush(cache_file, task[a].buf, complete)
    /\ SetTask(a, [task[a] EXCEPT !.pc = "done", !.buf = NoData])
    /\ SetLog(a, [log[run][a] EXCEPT !.out = task[a].data])
    /\ UNCHANGED <<library, records, cache, stats, epc, nxt, run, gvars, bvars>>

\* _process_artist: except Exception as e
Except(a) ==
    /\ task[a].pc = "except"
    /\ stats' = CountFailure(stats, task[a].exc)
    /\ SetTask(a, [task[a] EXCEPT !.pc = "done", !.data = ErrorDescriptor(task[a].exc)])
    /\ SetLog(a, [log[run][a] EXCEPT !.out = ErrorDescriptor(task[a].exc)])
    /\ UNCHANGED <<library, records, cache, cache_file, epc, nxt, run, gvars, bvars>>

Next ==
    \/ EnrichLocations
    \/ Collect
    \/ Finish
    \/ \E a \in LibNames : Start(a)
    \/ \E a \in LibNames : Check(a)
    \/ \E a \in LibNames : Hit(a)
    \/ \E a \in LibNames : HitUpdate(a)
    \/ \E a \in LibNames : Query(a)
    \/ \E a \in LibNames : NotFound(a)
    \/ \E a \in LibNames : Extract(a)
    \/ \E a \in LibNames : Classify(a)
    \/ \E a \in LibNames : Write(a)
    \/ \E a \in LibNames : SaveOpen(a)
    \/ \E a \in LibNames : SaveDump(a)
    \/ \E a \in LibNames : SaveClose(a)
    \/ \E a \in LibNames : Except(a)

Spec == Init /\ [][Next]_vars

----------------------------------------------------------------------------
(* MapVisualizer._process_artist_locations and _geocode_location *)

NewGeoLog ==
    [called |-> FALSE, str |-> PyNone, keys |-> {}, hit |-> Unknown,
     queries |-> <<>>, sleeps |-> 0, ev |-> <<>>, out |-> Pending]

EnricherUnused ==
    /\ library = <<>>
    /\ records = <<>>
    /\ cache = <<>>
    /\ cache_file = FileMissing
    /\ stats = InitialStats
    /\ task = <<>>
    /\ epc = "unused"
    /\ nxt = 0
    /\ run = 0
    /\ log = <<>>

GeoInit ==
    /\ \E keys \in GeoKeyOrders : \E recs \in [1..Len(keys) -> GeoRecords] :
          glibrary = [i \in 1..Len(keys) |-> [name |-> keys[i], data |-> recs[i]]]
    /\ geo_cache_file \in {FileMissing} \cup {FileDoc(c) : c \in InitialLocationCaches}
    /\ location_cache = LoadCache(geo_cache_file)
    /\ gstats = InitialGeoStats
    /\ artist_locations = <<>>
    /\ gpc = "constructed"
    /\ gi = 0
    /\ location_str = PyNone
    /\ location = PyNone
    /\ glog = <<>>
    /\ EnricherUnused
    /\ BuilderUnused

SetGeoLog(l) == glog' = [glog EXCEPT ![gi] = l]

ProcessArtistLocations ==
    /\ gpc = "constructed"
    /\ artist_locations' = <<>>
    /\ gstats' = [gstats EXCEPT !["total_locations"] = Len(glibrary)]
    /\ gi' = 1
    /\ gpc' = "loop"
    /\ glog' = [i \in 1..Len(glibrary) |-> NewGeoLog]
    /\ UNCHANGED <<glibrary, location_cache, geo_cache_file, location_str, location, evars, bvars>>

\* an item without a successful origin is passed over
LoopSkip ==
    /\ gpc = "loop"
    /\ gi <= Len(glibrary)
    /\ ~Participates(glibrary[gi].data)
    /\ gi' = gi + 1
    /\ UNCHANGED <<glibrary, location_cache, geo_cache_file, gstats, artist_locations,
                   gpc, location_str, location, glog, evars, bvars>>

\* else: self.stats['empty_locations'] += 1
LoopEmpty ==
    /\ gpc = "loop"
    /\ gi <= Len(glibrary)
    /\ Participates(glibrary[gi].data)
    /\ ~Truthy(GetLocationString(glibrary[gi].data["origin"]))
    /\ gstats' = Incr(gstats, "empty_locations")
    /\ gi' = gi + 1
    /\ UNCHANGED <<glibrary, location_cache, geo_cache_file, artist_locations,
                   gpc, location_str, location, glog, evars, bvars>>

\* coords = self._geocode_location(location_str): the call
LoopCall ==
    /\ gpc = "loop"
    /\ gi <= Len(glibrary)
    /\ Participates(glibrary[gi].data)
    /\ LET ls == GetLocationString(glibrary[gi].data["origin"]) IN
         /\ Truthy(ls)
         /\ location_str' = ls
         /\ SetGeoLog([glog[gi] EXCEPT !.called = TRUE, !.str = ls,
                          !.keys = DOMAIN location_cache,
                          !.hit = IF ls \in DOMAIN location_cache
                                  THEN location_cache[ls] ELSE Miss])
    /\ gpc' = "geocode"
    /\ UNCHANGED <<glibrary, location_cache, geo_cache_file, gstats, artist_locations,
                   gi, location, evars, bvars>>

\* mutant: the artist replaces the list of its coordinate
GroupReplace(m, coords, artist) ==
    IF coords = PyNone THEN m
    ELSE [k \in DOMAIN m \cup {coords} |-> IF k = coords THEN <<artist>> ELSE m[k]]

\* mutant: the artist is put at the head of the list
GroupPrepend(m, coords, artist) ==
    IF coords = PyNone THEN m
    ELSE [k \in DOMAIN m \cup {coords} |->
             IF k = coords
             THEN IF coords \in DOMAIN m THEN <<artist>> \o m[coords] ELSE <<artist>>
             ELSE m[k]]

\* if coords: artist_locations[coords].append(artist), a new list at first
GroupAppend(m, coords, artist) ==
    IF coords = PyNone THEN m
    ELSE [k \in DOMAIN m \cup {coords} |->
             IF k = coords
             THEN IF coords \in DOMAIN m THEN Append(m[coords], artist) ELSE <<artist>>
             ELSE m[k]]

\* _geocode_location returns result; the loop body ends
GeoReturn(result) ==
    /\ artist_locations' = GroupAppend(artist_locations, result, glibrary[gi].name)
    /\ gi' = gi + 1
    /\ gpc' = "loop"

\* if location_str in self.location_cache
InLocationCache(ls) == ls \in DOMAIN location_cache

GeoHit ==
    /\ gpc = "geocode"
    /\ InLocationCache(location_str)
    /\ gstats' = Incr(gstats, "from_cache")
    /\ GeoReturn(ToTuple(location_cache[location_str]))
    /\ SetGeoLog([glog[gi] EXCEPT !.out = ToTuple(location_cache[location_str])])
    /\ UNCHANGED <<glibrary, location_cache, geo_cache_file, location_str, location, evars, bvars>>

\* mutant: the exception is entered in the errors table only
GeoCountErrorOnly(st, msg) == [st EXCEPT !["errors"][msg] = @ + 1]

\* except Exception as e: counted, the lookup returns None
GeoCountError(st, msg) ==
    [st EXCEPT !["failed_geocodes"] = @ + 1, !["errors"][msg] = @ + 1]

\* time.sleep(1); location = self.geolocator.geocode(location_str)
GeoQueryFull ==
    /\ gpc = "geocode"
    /\ ~InLocationCache(location_str)
    /\ \E r \in GeocodeResponses :
         /\ IF r.kind = "raise"
            THEN /\ gstats' = GeoCountError(gstats, r.msg)
                 /\ GeoReturn(PyNone)
                 /\ location' = location
            ELSE IF r.kind = "none"
            THEN IF CanDegrade(location_str)
                 THEN /\ gpc' = "degraded"
                      /\ location' = PyNone
                      /\ UNCHANGED <<gstats, artist_locations, gi>>
                 ELSE /\ gstats' = Incr(gstats, "failed_geocodes")
                      /\ GeoReturn(PyNone)
                      /\ location' = PyNone
            ELSE /\ gpc' = "store"
                 /\ location' = r
                 /\ UNCHANGED <<gstats, artist_locations, gi>>
         /\ SetGeoLog([glog[gi] EXCEPT
                !.queries = Append(@, [q |-> location_str, r |-> r]),
                !.sleeps = @ + 1,
                !.ev = Queried(Slept(@, 1)),
                !.out = IF r.kind = "raise" \/ (r.kind = "none" /\ ~CanDegrade(location_str))
                        THEN PyNone ELSE @])
    /\ UNCHANGED <<glibrary, location_cache, geo_cache_file, location_str, evars, bvars>>

\* time.sleep(1); location = self.geolocator.geocode(shorter_location)
GeoQueryShorter ==
    /\ gpc = "degraded"
    /\ \E r \in GeocodeResponses :
         /\ IF r.kind = "raise"
            THEN /\ gstats' = GeoCountError(gstats, r.msg)
                 /\ GeoReturn(PyNone)
                 /\ location' = location
            ELSE IF r.kind = "none"
            THEN /\ gstats' = Incr(gstats, "failed_geocodes")
                 /\ GeoReturn(PyNone)
                 /\ location' = PyNone
            ELSE /\ gstats' = Incr(gstats, "successful_retry_geocodes")
                 /\ gpc' = "store"
                 /\ location' = r
                 /\ UNCHANGED <<artist_locations, gi>>
         /\ SetGeoLog([glog[gi] EXCEPT
                !.queries = Append(@, [q |-> ShorterLocation(location_str), r |-> r]),
                !.sleeps = @ + 1,
                !.ev = Queried(Slept(@, 1)),
                !.out = IF r.kind = "location" THEN @ ELSE PyNone])
    /\ UNCHANGED <<glibrary, location_cache, geo_cache_file, location_str, evars, bvars>>

\* mutant: the coordinate is cached under the shortened string
StoreKeyShorter(ls) == ShorterLocation(ls)

\* the key the coordinate is cached under
StoreKey(ls) == ls

\* if location: cache, save, count, return coords
GeoStore ==
    /\ gpc = "store"
    /\ LET coords == CoordsOf(location) IN
         /\ location_cache' = CacheWrite(location_cache, StoreKey(location_str), coords)
         /\ geo_cache_file' = FileDoc(JsonRoundTrip(location_cache'))
         /\ gstats' = Incr(gstats, "successful_geocodes")
         /\ GeoReturn(coords)
         /\ SetGeoLog([glog[gi] EXCEPT !.out = coords])
    /\ UNCHANGED <<glibrary, location_str, location, evars, bvars>>

\* return artist_locations
GeoDone ==
    /\ gpc = "loop"
    /\ gi > Len(glibrary)
    /\ gpc' = "returned"
    /\ UNCHANGED <<glibrary, location_cache, geo_cache_file, gstats, artist_locations,
                   gi, location_str, location, glog, evars, bvars>>

GeoNext ==
    \/ ProcessArtistLocations
    \/ LoopSkip
    \/ LoopEmpty
    \/ LoopCall
    \/ GeoHit
    \/ GeoQueryFull
    \/ GeoQueryShorter
    \/ GeoStore
    \/ GeoDone

GeoSpec == GeoInit /\ [][GeoNext]_vars

\* either component, from its constructed state
LookupInit == Init \/ GeoInit
LookupNext == Next \/ GeoNext
LookupSpec == LookupInit /\ [][LookupNext]_vars

----------------------------------------------------------------------------
(* SpotifyLibraryBuilder: build, save, load; and the start of Geolist.run *)

\* trim_year (src.util.utils): the first four characters of the raw date
TrimYear(date) == Str(SubSeq(date.s, 1, IF Len(date.s) < 4 THEN Len(date.s) ELSE 4))

\* a track's uri, as the retrieval layer gives it: fixed by the track id
Uri(id) == Str(<<"spotify:track:", id>>)

TrackIds == {"t1", "t2"}
TrackVariants == {1, 2}
RawDates ==
    <<Str(<<"2", "0", "0", "1", "-", "0", "5", "-", "0", "1">>), Str(<<"1", "9", "9">>)>>

ArtistData(a) == [name |-> a, uri |-> Str(<<"spotify:artist:", a>>), id |-> S(a)]

\* a raw track item; the second variant of a track carries a featured artist
TrackItem(a, t, v) ==
    [track |->
        [name |-> S(IF v = 1 THEN "Song" ELSE "Song - Remastered"),
         popularity |-> 10 * v,
         id |-> S(t),
         uri |-> Uri(t),
         album |-> [release_date |-> RawDates[v]],
         artists |-> <<ArtistData(a)>> \o (IF v = 2 THEN <<ArtistData("F")>> ELSE <<>>)]]

TrackItems ==
    {TrackItem(a, t, v) : a \in {"A", "B"}, t \in TrackIds, v \in TrackVariants}

TrackSequences == UNION {[1..n -> TrackItems] : n \in 0..MaxTracks}

\* _get_artist_info
GetArtistInfo(artist_data) ==
    [songs |-> <<>>, artist_uri |-> artist_data.uri, artist_id |-> artist_data.id]

\* _get_song_info
GetSongInfo(track) ==
    [name |-> track.name, popularity |-> track.popularity,
     release_date |-> TrimYear(track.album.release_date), id |-> track.id]

\* mutant: a key that is there is kept
SetItemKeepFirst(d, k, v) ==
    [x \in DOMAIN d \cup {k} |-> IF x \in DOMAIN d THEN d[x] ELSE v]

\* d[k] = v
SetItem(d, k, v) == [x \in DOMAIN d \cup {k} |-> IF x = k THEN v ELSE d[x]]

\* the body of the loop of build, for one track item
BuildItem(lib, track_item) ==
    LET track == track_item.track
        artist == track.artists[1].name
        lib1 == IF artist \notin DOMAIN lib
                THEN SetItem(lib, artist, GetArtistInfo(track.artists[1]))
                ELSE lib
    IN  [lib1 EXCEPT ![artist].songs = SetItem(@, track.uri, GetSongInfo(track))]

RECURSIVE BuildAll(_, _)
BuildAll(lib, items) ==
    IF items = <<>> THEN lib ELSE BuildAll(BuildItem(lib, Head(items)), Tail(items))

\* json.dump then json.load of a library: dicts with str keys, str and int
\* values come back as they were written
LibraryJson(lib) ==
    [a \in DOMAIN lib |->
        [k \in DOMAIN lib[a] |->
            IF k = "songs"
            THEN [u \in DOMAIN lib[a].songs |->
                     [f \in DOMAIN lib[a].songs[u] |-> lib[a].songs[u][f]]]
            ELSE lib[a][k]]]

\* libraries a file may hold when the builder is constructed
StoredLibraries == {BuildAll(<<>>, <<TrackItem("B", "t2", 2)>>)}

\* load has no return statement
LoadReturn == PyNone

BuilderInit ==
    /\ tracks \in TrackSequences
    /\ blibrary = <<>>
    /\ library_file \in {FileMissing, FileCorrupt} \cup {FileDoc(l) : l \in StoredLibraries}
    /\ bpc = "constructed"
    /\ bi = 0
    /\ blog = <<>>
    /\ retval = PyNone
    /\ EnricherUnused
    /\ GeoUnused

Logged(op, before, ret) ==
    blog' = Append(blog, [op |-> op, before |-> before, ret |-> ret])

\* build(tracks): the loop is entered
Build ==
    /\ bpc = "constructed"
    /\ Len(blog) < MaxOps
    /\ Logged("build", blibrary, Pending)
    /\ bi' = 1
    /\ bpc' = "build"
    /\ UNCHANGED <<tracks, blibrary, library_file, retval, evars, gvars>>

BuildLoop ==
    /\ bpc = "build"
    /\ bi <= Len(tracks)
    /\ blibrary' = BuildItem(blibrary, tracks[bi])
    /\ bi' = bi + 1
    /\ UNCHANGED <<tracks, library_file, bpc, blog, retval, evars, gvars>>

\* return self.library
BuildReturn ==
    /\ bpc = "build"
    /\ bi > Len(tracks)
    /\ blog' = [blog EXCEPT ![Len(blog)].ret = blibrary]
    /\ bpc' = "constructed"
    /\ UNCHANGED <<tracks, blibrary, library_file, bi, retval, evars, gvars>>

\* save(filename)
SaveFile(lib) == FileDoc(LibraryJson(lib))

Save ==
    /\ bpc = "constructed"
    /\ Len(blog) < MaxOps
    /\ library_file' = SaveFile(blibrary)
    /\ Logged("save", blibrary, PyNone)
    /\ UNCHANGED <<tracks, blibrary, bpc, bi, retval, evars, gvars>>

\* load(filename): open or json.load may raise; the except clause prints
LoadLibrary(lib, file) == IF file.kind = "doc" THEN file.doc ELSE lib

Load ==
    /\ bpc = "constructed"
    /\ Len(blog) < MaxOps
    /\ blibrary' = LoadLibrary(blibrary, library_file)
    /\ Logged("load", library_file, LoadReturn)
    /\ UNCHANGED <<tracks, library_file, bpc, bi, retval, evars, gvars>>

\* Geolist.run without --no-cache: self.library = self.library_builder.load(...)
\* no exception leaves load, so the except FileNotFoundError clause is passed
RunLoad ==
    /\ bpc = "constructed"
    /\ Len(blog) < MaxOps
    /\ blibrary' = LoadLibrary(blibrary, library_file)
    /\ Logged("run", library_file, LoadReturn)
    /\ bpc' = "run_loaded"
    /\ UNCHANGED <<tracks, library_file, bi, retval, evars, gvars>>

\* if self.output_file: self.library_builder.save(self.output_file)
RunSave ==
    /\ bpc = "run_loaded"
    /\ library_file' = SaveFile(blibrary)
    /\ bpc' = "run_saved"
    /\ UNCHANGED <<tracks, blibrary, bi, blog, retval, evars, gvars>>

\* self.library_builder.enrich_artist_location(): enrich_locations is entered
\* with the builder's library; with no artist it goes straight to
\* _print_stats. The enrichment of a library with artists is Spec.
RunEnrich ==
    /\ bpc \in {"run_loaded", "run_saved"}
    /\ IF PrintStatsRaises([total |-> Cardinality(DOMAIN blibrary)])
       THEN /\ bpc' = "run_raised"
            /\ retval' = Raise("ZeroDivisionError")
       ELSE /\ bpc' = "run_enriching"
            /\ retval' = retval
    /\ UNCHANGED <<tracks, blibrary, library_file, bi, blog, evars, gvars>>

LibNext ==
    \/ Build
    \/ BuildLoop
    \/ BuildReturn
    \/ Save
    \/ Load
    \/ RunLoad
    \/ RunSave
    \/ RunEnrich

LibSpec == BuilderInit /\ [][LibNext]_vars

----------------------------------------------------------------------------
(* Reading the histories *)

Runs == 1..run

\* the lookup of artist a in run r has returned
Returned(r, a) == log[r][a].out # Pending

IsRaise(resp) == resp.kind = "raise"
IsError(d) == Get(d, "status") = S("error")

\* a lookup found its key in the cache when it started
WasCached(l) == l.hit # Unknown /\ l.hit # Miss

GeoItems == DOMAIN glog
GeoReturned(i) == glog[i].out # Pending

----------------------------------------------------------------------------
(* C1: in the Location Resolver and in the Geocoder, a lookup whose key is *)
(* in the component's cache when it starts returns the cached value and    *)
(* performs no external query and no rate-limit delay.                     *)

C1_CacheHitNoQuery ==
    /\ \A r \in Runs : \A a \in LibNames :
          WasCached(log[r][a]) =>
             /\ log[r][a].resp = <<>>
             /\ log[r][a].sleeps = 0
             /\ Returned(r, a) => log[r][a].out = log[r][a].hit
    /\ \A i \in GeoItems :
          WasCached(glog[i]) =>
             /\ glog[i].queries = <<>>
             /\ glog[i].sleeps = 0
             /\ GeoReturned(i) => /\ glog[i].out # PyNone
                                  /\ glog[i].out.v = glog[i].hit.v

\* a geocoder lookup answered from the cache has returned
C1_Witness ==
    \E i \in GeoItems : WasCached(glog[i]) /\ GeoReturned(i)

\* a resolver lookup answered from the cache has returned
C1_WitnessResolver ==
    \E r \in Runs : \E a \in LibNames : WasCached(log[r][a]) /\ Returned(r, a)

----------------------------------------------------------------------------
(* C2: resolving the same artist name twice                                *)

\* C2 as claimed: an artist absent from the cache, resolved in two runs of
\* enrich_locations, costs exactly one directory query over both runs and
\* the second run returns the descriptor of the first, whatever the first
\* run's outcome was.
C2_AsClaimed ==
    \A a \in LibNames :
       (run = 2 /\ log[1][a].hit = Miss /\ Returned(2, a)) =>
          /\ Len(log[1][a].resp) + Len(log[2][a].resp) = 1
          /\ log[2][a].out = log[1][a].out

\* C2 as amended: when the first resolution ended with a descriptor (match
\* or no match) the second issues no query and returns the identical
\* descriptor, the two together issuing the first's 1 to MAX_RETRIES
\* attempts (one when no attempt raised); when the first ended in a fault,
\* nothing is cached and the second queries the directory again.
C2_SecondResolution ==
    \A a \in LibNames :
       (run = 2 /\ log[1][a].hit = Miss /\ Returned(2, a)) =>
          /\ ~IsError(log[1][a].out) =>
                /\ log[2][a].resp = <<>>
                /\ log[2][a].out = log[1][a].out
                /\ Len(log[1][a].resp) + Len(log[2][a].resp) \in 1..MAX_RETRIES
                /\ ~IsRaise(log[1][a].resp[1]) =>
                      Len(log[1][a].resp) + Len(log[2][a].resp) = 1
          /\ IsError(log[1][a].out) =>
                /\ log[2][a].hit = Miss
                /\ log[2][a].resp # <<>>

\* a second run answered from what the first run learned from the directory
C2_Witness ==
    \E a \in LibNames :
       /\ run = 2 /\ log[1][a].hit = Miss /\ Returned(2, a)
       /\ ~IsError(log[1][a].out)
       /\ log[2][a].out = log[1][a].out

----------------------------------------------------------------------------
(* C3: geocoding the same joined location string twice                     *)

\* lookups i and j are two successive lookups of one string, the first of
\* which did not find it in the cache
SameString(i, j) ==
    /\ i < j /\ glog[i].called /\ glog[j].called
    /\ glog[i].str = glog[j].str
    /\ \A k \in GeoItems :
          (i < k /\ k < j /\ glog[k].called) => glog[k].str # glog[i].str
    /\ glog[i].hit = Miss
    /\ GeoReturned(j)

\* C3 as claimed: one external query in total and the identical coordinate,
\* whatever the first lookup's outcome was.
C3_AsClaimed ==
    \A i, j \in GeoItems :
       SameString(i, j) =>
          /\ Len(glog[i].queries) + Len(glog[j].queries) = 1
          /\ glog[j].out = glog[i].out

\* C3 as amended: when the first lookup returned a coordinate the second
\* issues no query and returns the identical coordinate, the first having
\* issued one query (found on the full string) or two (found after
\* degradation); when the first returned none (no result, or an exception)
\* nothing is cached and the second queries the service again.
C3_SecondLookup ==
    \A i, j \in GeoItems :
       SameString(i, j) =>
          /\ glog[i].out # PyNone =>
                /\ glog[j].queries = <<>>
                /\ glog[j].out = glog[i].out
                /\ Len(glog[i].queries) =
                      IF glog[i].queries[1].r.kind = "location" THEN 1 ELSE 2
          /\ glog[i].out = PyNone =>
                /\ glog[j].hit = Miss
                /\ glog[j].queries # <<>>

\* the second of two lookups of one string answered from the first, which
\* had found the coordinate only after degradation
C3_Witness ==
    \E i, j \in GeoItems :
       /\ SameString(i, j)
       /\ Len(glog[i].queries) = 2
       /\ glog[i].out # PyNone
       /\ glog[j].out = glog[i].out

----------------------------------------------------------------------------
(* C4: retry ceiling of the Location Resolver                              *)

AllRaise(resp) == \A k \in 1..Len(resp) : IsRaise(resp[k])

\* C4: an artist that is not cached and whose directory query raises on
\* every attempt is queried exactly MAX_RETRIES times, never more, and its
\* outcome is then {status: error} with the last exception's text.
C4_RetryCeiling ==
    \A r \in Runs : \A a \in LibNames :
       /\ Len(log[r][a].resp) <= MAX_RETRIES
       /\ (Returned(r, a) /\ log[r][a].hit = Miss /\ AllRaise(log[r][a].resp)) =>
             /\ Len(log[r][a].resp) = MAX_RETRIES
             /\ log[r][a].out = ErrorDescriptor(log[r][a].resp[MAX_RETRIES].msg)
       /\ (Returned(r, a) /\ IsError(log[r][a].out)) =>
             /\ AllRaise(log[r][a].resp)
             /\ Len(log[r][a].resp) = MAX_RETRIES

\* a lookup gave up after raising with two different messages
C4_Witness ==
    \E r \in Runs : \E a \in LibNames :
       /\ Returned(r, a) /\ IsError(log[r][a].out)
       /\ log[r][a].resp[1] # log[r][a].resp[MAX_RETRIES]

----------------------------------------------------------------------------
(* C5: batch isolation in the Location Resolver                            *)

LastOf(seq) == seq[Len(seq)]

\* the descriptor a lookup yields, from what that lookup alone was given:
\* the cache entry it found, or the directory's answers to it
OwnOutcome(l) ==
    IF WasCached(l) THEN l.hit
    ELSE IF IsRaise(LastOf(l.resp)) THEN ErrorDescriptor(LastOf(l.resp).msg)
    ELSE IF LastOf(l.resp).artist_list = <<>> THEN NotFoundDescriptor
    ELSE Classified(LocationFields(LastOf(l.resp).artist_list[1]))

Lookups == Runs \X LibNames
FailedLookups == {x \in Lookups : IsError(log[x[1]][x[2]].out)}

\* C5: whatever artists fail after all retries, every artist still gets an
\* origin; a failed artist gets {status: error}, adds one to failed and one
\* to the errors entry of its exception's text; every artist's outcome is
\* what its own cache entry and directory answers determine, whether or not
\* other artists failed.
C5_BatchIsolation ==
    /\ \A x \in Lookups :
          Returned(x[1], x[2]) => log[x[1]][x[2]].out = OwnOutcome(log[x[1]][x[2]])
    /\ stats.failed = Cardinality(FailedLookups)
    /\ \A m \in ErrorMessages :
          stats.errors[m] =
             Cardinality({x \in Lookups : log[x[1]][x[2]].out = ErrorDescriptor(m)})
    /\ epc = "returned" =>
          \A a \in LibNames :
             /\ "origin" \in DOMAIN records[a]
             /\ records[a]["origin"] = log[run][a].out

\* a run returned with one artist failed and another resolved by the directory
C5_Witness ==
    /\ epc = "returned"
    /\ \E a, b \in LibNames :
          /\ IsError(log[1][a].out)
          /\ log[1][b].hit = Miss
          /\ Get(log[1][b].out, "status") = S("success")
          /\ Truthy(Get(log[1][b].out, "area"))

----------------------------------------------------------------------------
(* C6: stats conservation                                                  *)

FromCache(st) == IF "from_cache" \in DOMAIN st THEN st["from_cache"] ELSE 0

\* C6 as claimed: when enrich_locations returns on a freshly constructed
\* enricher, success + no_data + failed equals total and from_cache is at
\* most total, for any initial cache contents.
C6_AsClaimed ==
    (epc = "returned" /\ run = 1) =>
        /\ stats.success + stats.no_data + stats.failed = stats.total
        /\ FromCache(stats) <= stats.total

----------------------------------------------------------------------------
(* C7: classification of a directory match                                 *)

NoFields(artist_info) ==
    /\ ~Truthy(NestedName(artist_info, "begin-area"))
    /\ ~Truthy(NestedName(artist_info, "area"))
    /\ ~Truthy(Get(artist_info, "country"))

Matched(l) ==
    /\ l.out # Pending /\ l.hit = Miss
    /\ ~IsRaise(LastOf(l.resp)) /\ LastOf(l.resp).artist_list # <<>>
MatchedInfo(l) == LastOf(l.resp).artist_list[1]

\* C7 as claimed: a match yields status no_location_data when city, area
\* and country are all empty and success otherwise, the matching counter is
\* the one incremented, and the descriptor is cached under the artist name.
C7_AsClaimed ==
    /\ \A x \in Lookups :
          LET l == log[x[1]][x[2]] IN
          Matched(l) =>
             /\ l.out["status"] = IF NoFields(MatchedInfo(l))
                                  THEN S("no_location_data") ELSE S("success")
             /\ x[2] \in DOMAIN cache /\ cache[x[2]] = l.out
    /\ epc = "returned" =>
          stats.success =
             Cardinality({x \in Lookups : /\ Matched(log[x[1]][x[2]])
                                          /\ ~NoFields(MatchedInfo(log[x[1]][x[2]]))})

----------------------------------------------------------------------------
(* C8: the Geocoder's degradation fallback                                 *)

Origin(i) == glibrary[i].data["origin"]

\* the non-empty parts of an origin, in the order they are joined
Parts(o) ==
    LET F(k) == IF Truthy(Get(o, k)) THEN <<o[k].s>> ELSE <<>>
    IN  F("city") \o F("area") \o F("country")

\* the joined string with its last part dropped
WithoutLastPart(o) ==
    Str(JoinTokens(<<",", " ">>, SubSeq(Parts(o), 1, Len(Parts(o)) - 1)))

Degraded(i) ==
    /\ glog[i].called /\ glog[i].hit = Miss
    /\ Len(Parts(Origin(i))) >= 2
    /\ glog[i].queries # <<>>
    /\ glog[i].queries[1].r.kind = "none"

CountItems(P(_)) == Cardinality({i \in GeoItems : P(i)})

\* C8: an uncached string of several parts whose full query returns nothing
\* gets exactly one further query, for the string without its last part; if
\* that finds a coordinate it is returned, counted as a retry success and
\* cached under the full string only; if not, failed_geocodes is counted
\* once and nothing more is queried.
C8_Degradation ==
    /\ \A i \in GeoItems :
          Degraded(i) =>
             /\ glog[i].queries[1].q = glog[i].str
             /\ Len(glog[i].queries) <= 2
             /\ GeoReturned(i) => Len(glog[i].queries) = 2
             /\ Len(glog[i].queries) = 2 =>
                   /\ glog[i].queries[2].q = WithoutLastPart(Origin(i))
                   /\ glog[i].sleeps = 2
             /\ (GeoReturned(i) /\ glog[i].queries[2].r.kind = "location") =>
                   /\ glog[i].out = PyTuple(<<glog[i].queries[2].r.latitude,
                                              glog[i].queries[2].r.longitude>>)
                   /\ glog[i].str \in DOMAIN location_cache
                   /\ location_cache[glog[i].str] = glog[i].out
                   /\ (gpc = "loop" /\ gi = i + 1) =>
                         DOMAIN location_cache = glog[i].keys \cup {glog[i].str}
             /\ (GeoReturned(i) /\ glog[i].queries[2].r.kind # "location") =>
                   /\ glog[i].out = PyNone
                   /\ (gpc = "loop" /\ gi = i + 1) =>
                         DOMAIN location_cache = glog[i].keys
    /\ gpc \in {"loop", "returned"} =>
          /\ gstats.successful_retry_geocodes =
                CountItems(LAMBDA i : Degraded(i) /\ GeoReturned(i) /\ glog[i].out # PyNone)
          /\ gstats.failed_geocodes =
                CountItems(LAMBDA i : glog[i].called /\ glog[i].out = PyNone)

\* a three-part string was found after degradation, and the shortened
\* string is no key of the cache
C8_Witness ==
    \E i \in GeoItems :
       /\ Degraded(i) /\ GeoReturned(i) /\ glog[i].out # PyNone
       /\ Len(Parts(Origin(i))) = 3
       /\ WithoutLastPart(Origin(i)) \notin DOMAIN location_cache
       /\ glog[i].str \in DOMAIN location_cache

----------------------------------------------------------------------------
(* C9: grouping by coordinate                                              *)

\* names of the first n items whose lookup returned c, in library order
RECURSIVE NamesAt(_, _)
NamesAt(c, n) ==
    IF n = 0 THEN <<>>
    ELSE IF glog[n].out = c
         THEN Append(NamesAt(c, n - 1), glibrary[n].name)
         ELSE NamesAt(c, n - 1)

CoordinateKeys == {PyTuple(v) : v \in Coordinates}

\* C9: every artist whose lookup returned coordinate c is in the list of c,
\* the lists are in the iteration order of the library, and artists with
\* the identical coordinate pair share one key.
C9_Grouping ==
    gpc \in {"loop", "geocode", "degraded", "store", "returned"} =>
       /\ DOMAIN artist_locations \subseteq CoordinateKeys
       /\ \A c \in CoordinateKeys :
             IF NamesAt(c, Len(glibrary)) = <<>>
             THEN c \notin DOMAIN artist_locations
             ELSE /\ c \in DOMAIN artist_locations
                  /\ artist_locations[c] = NamesAt(c, Len(glibrary))

\* B precedes A in the library and in a list, one of them answered from
\* the cache and the other by the service
C9_Witness ==
    /\ gpc = "returned"
    /\ \E c \in DOMAIN artist_locations : artist_locations[c] = <<"B", "A">>
    /\ \E i, j \in GeoItems : WasCached(glog[i]) /\ glog[j].queries # <<>>

----------------------------------------------------------------------------
(* C10: empty-location exclusion                                           *)

\* library item i carries an origin whose status is success
SuccessOrigin(i) ==
    /\ "origin" \in DOMAIN glibrary[i].data
    /\ "status" \in DOMAIN glibrary[i].data["origin"]
    /\ glibrary[i].data["origin"]["status"] = S("success")

EmptySuccess(i) ==
    /\ SuccessOrigin(i)
    /\ Parts(Origin(i)) = <<>>

InOutput(name) ==
    \E c \in DOMAIN artist_locations :
       \E k \in 1..Len(artist_locations[c]) : artist_locations[c][k] = name

\* the last answer the service gave lookup i was an exception with text m
RaisedWith(i, m) ==
    glog[i].queries # <<>> /\ LastOf(glog[i].queries).r = Raise(m)

\* C10: an artist with a successful but empty origin adds one to
\* empty_locations, causes no cache lookup and no query, and is in no list;
\* an artist without origin or with another status causes no query, changes
\* no counter and is absent from the output: every counter counts the
\* artists that were looked up, and those only.
C10_EmptyExclusion ==
    gpc \in {"loop", "geocode", "degraded", "store", "returned"} =>
       /\ \A i \in GeoItems :
             (EmptySuccess(i) \/ ~SuccessOrigin(i)) =>
                /\ glog[i] = NewGeoLog
                /\ ~InOutput(glibrary[i].name)
       /\ gstats.empty_locations = CountItems(LAMBDA i : i < gi /\ EmptySuccess(i))
       /\ gstats.from_cache = CountItems(LAMBDA i : WasCached(glog[i]) /\ GeoReturned(i))
       /\ gstats.successful_geocodes =
             CountItems(LAMBDA i : glog[i].hit = Miss /\ GeoReturned(i) /\ glog[i].out # PyNone)
       /\ gstats.failed_geocodes =
             CountItems(LAMBDA i : glog[i].called /\ glog[i].out = PyNone)
       /\ \A m \in ErrorMessages :
             gstats.errors[m] = CountItems(LAMBDA i : RaisedWith(i, m))
       /\ gstats.total_locations = Len(glibrary)

\* a library was processed that holds an artist with a successful but empty
\* origin and an artist whose origin is an error
C10_Witness ==
    /\ gpc = "returned"
    /\ gstats.empty_locations = 1
    /\ \E i, j \in GeoItems :
          /\ EmptySuccess(i)
          /\ "origin" \in DOMAIN glibrary[j].data /\ IsError(Origin(j))

\* a library was processed that holds an artist without origin next to one
\* that was geocoded
C10_WitnessAbsent ==
    /\ gpc = "returned"
    /\ \E i, j \in GeoItems :
          /\ "origin" \notin DOMAIN glibrary[i].data
          /\ InOutput(glibrary[j].name)

----------------------------------------------------------------------------
(* C11: Library Builder deduplication                                      *)

BuildCalls == {n \in 1..Len(blog) : blog[n].op = "build"}

\* the first operation on the builder was a build, and it has returned
FreshBuild == 1 \in BuildCalls /\ bpc # "build"

PrimaryArtist(k) == tracks[k].track.artists[1].name
TrackId(k) == tracks[k].track.id
ItemsOf(a) == {k \in 1..Len(tracks) : PrimaryArtist(k) = a}
LastItem(a, id) ==
    CHOOSE k \in ItemsOf(a) :
       TrackId(k) = id /\ \A j \in ItemsOf(a) : TrackId(j) = id => j <= k

\* C11: the library built from a track sequence has one record per distinct
\* primary-artist name, and each artist's track set has exactly one entry
\* per distinct track id of that artist, holding the values of the last
\* item with that id.
C11_Deduplication ==
    FreshBuild =>
       LET built == blog[1].ret IN
          /\ DOMAIN built = {PrimaryArtist(k) : k \in 1..Len(tracks)}
          /\ \A a \in DOMAIN built :
                LET ids == {TrackId(k) : k \in ItemsOf(a)} IN
                   /\ Cardinality(DOMAIN built[a].songs) = Cardinality(ids)
                   /\ \A id \in ids : \E u \in DOMAIN built[a].songs :
                         LET song == built[a].songs[u]
                             last == tracks[LastItem(a, id)].track
                         IN  /\ song.id = id
                             /\ song.name = last.name
                             /\ song.popularity = last.popularity

\* a library built from a sequence in which one artist has the same track
\* twice, with different values, and another artist has a track as well
C11_Witness ==
    /\ FreshBuild
    /\ \E j, k \in 1..Len(tracks) :
          /\ j < k
          /\ PrimaryArtist(j) = PrimaryArtist(k)
          /\ TrackId(j) = TrackId(k)
          /\ tracks[j] # tracks[k]
    /\ Cardinality(DOMAIN blog[1].ret) = 2

----------------------------------------------------------------------------
(* C12: round-trip persistence                                             *)

\* operation n saved the library and operation n + 1 loaded the file
SaveThenLoad(n) ==
    /\ n + 1 <= Len(blog)
    /\ blog[n].op = "save"
    /\ blog[n + 1].op = "load"

\* C12 as claimed: the library the caller obtains from a load that follows
\* a save is identical to the library that was saved.
C12_AsClaimed ==
    \A n \in 1..Len(blog) :
       SaveThenLoad(n) => blog[n + 1].ret = blog[n].before

\* what does hold: the builder's own library attribute is the saved one
C12_BuilderAttribute ==
    \A n \in 1..Len(blog) :
       (SaveThenLoad(n) /\ Len(blog) = n + 1) => blibrary = blog[n].before

----------------------------------------------------------------------------
(* C13: library load failure is surfaced                                   *)

\* the value is an exception that reached the caller
Surfaced(v) == "kind" \in DOMAIN v /\ v.kind = "raise"

\* C13 as claimed: a load of an absent or unparsable file ends in a failure
\* the caller sees, and Geolist.run on such a file stops before the
\* enrichment.
C13_AsClaimed ==
    \A n \in 1..Len(blog) :
       blog[n].before \in {FileMissing, FileCorrupt} =>
          /\ blog[n].op = "load" => Surfaced(blog[n].ret)
          /\ (blog[n].op = "run" /\ n = Len(blog)) =>
                bpc \notin {"run_loaded", "run_saved", "run_enriching", "run_raised"}

----------------------------------------------------------------------------
(* C14: run completion                                                     *)

\* C14 as claimed (its safety half): no input makes enrich_locations end
\* with an exception instead of returning the library and the stats.
C14_AsClaimed == epc # "raised"

----------------------------------------------------------------------------
(* C15: cache mutual exclusion in the Location Resolver                    *)

\* the worker has written cache[artist_name] and its _save_cache call has
\* not returned
InCacheSection(a) == task[a].pc \in {"save_open", "save_dump", "save_close"}

\* C15 as claimed: no two workers are inside the cache-mutation section at
\* the same time.
C15_AsClaimed == Cardinality({a \in LibNames : InCacheSection(a)}) <= 1

----------------------------------------------------------------------------
(* C16: cache file consistency under concurrent writers                    *)

\* the lookup of artist a in the last run learned a descriptor and saved it
Learned(a) ==
    /\ log[run][a].hit = Miss
    /\ Returned(run, a)
    /\ ~IsError(log[run][a].out)

\* C16 as claimed: when enrich_locations returns from a run in which
\* entries were learned, the cache file is one well-formed document, equal
\* to the in-memory cache.
C16_AsClaimed ==
    (epc = "returned" /\ \E a \in LibNames : Learned(a)) =>
       cache_file = FileDoc(cache)

----------------------------------------------------------------------------
(* C17: geocoder transient-fault retry                                     *)

\* the geocoding call raised a transient exception on every query of item i
AlwaysTimedOut(i) ==
    /\ glog[i].queries # <<>>
    /\ \A k \in 1..Len(glog[i].queries) : IsRaise(glog[i].queries[k].r)

\* C17 as claimed: a lookup whose call always raises a timeout or a service
\* error has issued exactly three queries, all for the full string, when it
\* is given up.
C17_AsClaimed ==
    \A i \in GeoItems :
       (GeoReturned(i) /\ AlwaysTimedOut(i)) =>
          /\ Len(glog[i].queries) = 3
          /\ \A k \in 1..Len(glog[i].queries) : glog[i].queries[k].q = glog[i].str

----------------------------------------------------------------------------
(* C18: geocoder success counters                                          *)

\* lookup i got its coordinate from the first query, from the second one
FirstAttemptSuccess(i) ==
    /\ GeoReturned(i) /\ glog[i].out # PyNone
    /\ Len(glog[i].queries) = 1
RetrySuccess(i) ==
    /\ GeoReturned(i) /\ glog[i].out # PyNone
    /\ Len(glog[i].queries) = 2

\* C18 as claimed: successful_geocodes counts the lookups that succeeded on
\* the full string and successful_retry_geocodes those that succeeded on
\* the shortened string only; no lookup is in both.
C18_AsClaimed ==
    gpc \in {"loop", "returned"} =>
       /\ gstats.successful_geocodes = CountItems(FirstAttemptSuccess)
       /\ gstats.successful_retry_geocodes = CountItems(RetrySuccess)

----------------------------------------------------------------------------
(* C19: join barrier of enrich_locations                                   *)

Ended == epc \in {"returned", "raised"}

\* C19: when enrich_locations has ended, every submitted task has completed
\* and its outcome is the origin of its artist in the library; and as long
\* as enrich_locations is not called again, no task, stats counter, cache
\* entry, cache file or record changes.
C19_JoinBarrier ==
    /\ [](Ended =>
            \A a \in LibNames :
               /\ task[a].pc = "done"
               /\ Returned(run, a)
               /\ "origin" \in DOMAIN records[a]
               /\ records[a]["origin"] = log[run][a].out)
    /\ [][(Ended /\ epc' = epc) =>
             UNCHANGED <<task, stats, cache, cache_file, records, log>>]_vars

\* a run over two artists has returned, one answered from the cache and one
\* by the directory
C19_Witness ==
    /\ epc = "returned"
    /\ \E a, b \in LibNames :
          /\ WasCached(log[run][a])
          /\ log[run][b].resp # <<>>

----------------------------------------------------------------------------
(* C20: rate-limit ordering                                                *)

\* in a worker's sequence of delays and external queries, every query comes
\* straight after a delay of at least the minimum, so that a full delay
\* lies between it and the worker's previous query
DelayedQueries(ev) ==
    \A k \in 1..Len(ev) :
       ev[k].e = "query" =>
          /\ k > 1
          /\ ev[k - 1].e = "sleep"
          /\ ev[k - 1].d >= 1

QueriesIn(ev) == Cardinality({k \in 1..Len(ev) : ev[k].e = "query"})

\* C20: in both components every external query, re-attempts and the query
\* of the shortened string included, is preceded in its worker by one full
\* minimum delay taken after the worker's previous query; a lookup answered
\* from the cache performs no delay.
C20_RateLimitOrdering ==
    /\ \A r \in Runs : \A a \in LibNames :
          /\ DelayedQueries(log[r][a].ev)
          /\ QueriesIn(log[r][a].ev) = Len(log[r][a].resp)
          /\ WasCached(log[r][a]) => log[r][a].ev = <<>>
    /\ \A i \in GeoItems :
          /\ DelayedQueries(glog[i].ev)
          /\ QueriesIn(glog[i].ev) = Len(glog[i].queries)
          /\ WasCached(glog[i]) => glog[i].ev = <<>>

\* a resolver lookup that was re-attempted to the ceiling has ended
C20_Witness ==
    \E r \in Runs : \E a \in LibNames :
       /\ Returned(r, a)
       /\ Len(log[r][a].resp) = MAX_RETRIES

\* a geocoder lookup that queried the full and the shortened string has ended
C20_WitnessGeocoder ==
    \E i \in GeoItems : GeoReturned(i) /\ Len(glog[i].queries) = 2

----------------------------------------------------------------------------
(* C21: missing-field counters                                             *)

\* the descriptor has no value for the field
Lacks(d, field) == ~Truthy(Get(d, field))

\* the artists of run r whose descriptor lacks the field
Lacking(r, field) == {a \in LibNames : Lacks(log[r][a].out, field)}

\* C21 as claimed: after the first run of a new enricher, no_city, no_area
\* and no_country each count the artists whose final descriptor lacks that
\* field, whether the descriptor came from the cache or from a query.
C21_AsClaimed ==
    (epc = "returned" /\ run = 1) =>
       /\ stats.no_city = Cardinality(Lacking(1, "city"))
       /\ stats.no_area = Cardinality(Lacking(1, "area"))
       /\ stats.no_country = Cardinality(Lacking(1, "country"))

----------------------------------------------------------------------------
(* C22: stats are reset per run                                            *)

\* the artists of run r whose lookup ended the given way
FreshWith(r, status) ==
    {a \in LibNames : ~WasCached(log[r][a]) /\ Get(log[r][a].out, "status") = S(status)}
CachedIn(r) == {a \in LibNames : WasCached(log[r][a])}

\* C22 as claimed: the stats the second call of enrich_locations returns
\* count the second run's outcomes only.
C22_AsClaimed ==
    (epc = "returned" /\ run = 2) =>
       /\ stats.success = Cardinality(FreshWith(2, "success"))
       /\ stats.no_data = Cardinality(FreshWith(2, "not_found"))
       /\ stats.failed = Cardinality(FreshWith(2, "error"))
       /\ FromCache(stats) = Cardinality(CachedIn(2))

----------------------------------------------------------------------------
(* C23: geocoder per-item containment                                      *)

\* the service raised on the last query lookup i made
EndedInException(i) ==
    glog[i].queries # <<>> /\ IsRaise(LastOf(glog[i].queries).r)

\* lookup i ended without a coordinate and without an exception
EndedEmpty(i) ==
    /\ GeoReturned(i) /\ glog[i].out = PyNone
    /\ ~EndedInException(i)

\* C23: an exception raised by the first or by the shortened-string query
\* ends the lookup with no coordinate, adds exactly one to failed_geocodes
\* and one to the errors entry of its message, and the loop goes on to the
\* next artist: when the call returns, every artist has had its turn.
C23_Containment ==
    /\ \A i \in GeoItems :
          EndedInException(i) =>
             /\ GeoReturned(i) /\ glog[i].out = PyNone
             /\ gi > i
             /\ ~InOutput(glibrary[i].name)
    /\ \A m \in ErrorMessages :
          gstats.errors[m] = CountItems(LAMBDA i : RaisedWith(i, m))
    /\ gpc \in {"loop", "returned"} =>
          gstats.failed_geocodes =
             CountItems(EndedInException) + CountItems(EndedEmpty)
    /\ gpc = "returned" =>
          \A i \in GeoItems :
             (SuccessOrigin(i) /\ Parts(Origin(i)) # <<>>) =>
                glog[i].called /\ GeoReturned(i)

\* the shortened-string query of the first artist raised and the second
\* artist was geocoded after it
C23_Witness ==
    /\ gpc = "returned"
    /\ \E i, j \in GeoItems :
          /\ i < j
          /\ EndedInException(i) /\ Len(glog[i].queries) = 2
          /\ glog[j].queries # <<>> /\ glog[j].out # PyNone

----------------------------------------------------------------------------
(* C24: frame of enrich_locations                                          *)

\* the record of artist a is the input record, with or without an origin
InputFieldsKept(a) ==
    /\ DOMAIN records[a] \subseteq DOMAIN InitialRecord(a) \cup {"origin"}
    /\ \A k \in DOMAIN InitialRecord(a) :
          k \in DOMAIN records[a] /\ records[a][k] = InitialRecord(a)[k]

\* C24: the library has exactly the input's artist names; every record
\* keeps artist_id, artist_uri and its track set, and its origin, once
\* set, is a descriptor produced for that same name; a record changes only
\* in a step of the collecting loop, for the artist the loop is at, whose
\* task is done; and within a run no task is started twice.
C24_Frame ==
    /\ [](/\ DOMAIN records = LibNames
          /\ \A a \in LibNames :
                /\ InputFieldsKept(a)
                /\ "origin" \in DOMAIN records[a] =>
                      \E r \in Runs :
                         Returned(r, a) /\ records[a]["origin"] = log[r][a].out
          /\ Ended =>
                \A a \in LibNames :
                   /\ "origin" \in DOMAIN records[a]
                   /\ records[a]["origin"] = log[run][a].out)
    /\ [][/\ records' # records =>
                /\ epc = "collect" /\ nxt <= Len(library)
                /\ task[library[nxt]].pc = "done"
                /\ task' = task
                /\ \A b \in LibNames \ {library[nxt]} : records'[b] = records[b]
          /\ run' = run =>
                \A a \in LibNames :
                   task[a].pc # "queued" => task'[a].pc # "queued"]_vars

\* a run over two artists has returned with two different origins
C24_Witness ==
    /\ epc = "returned"
    /\ Len(library) = 2
    /\ records[library[1]]["origin"] # records[library[2]]["origin"]
    /\ \A a \in LibNames : log[run][a].resp # <<>>

----------------------------------------------------------------------------
(* C25: resolver outcome partition                                         *)

\* C25: when the first run of a new enricher returns, each artist has been
\* counted in exactly one of success, no_data, failed and from_cache, once,
\* however often its lookup was re-attempted; so the four add up to total.
C25_OutcomePartition ==
    (epc = "returned" /\ run = 1) =>
       /\ stats.success = Cardinality(FreshWith(1, "success"))
       /\ stats.no_data =
             Cardinality(FreshWith(1, "not_found") \cup FreshWith(1, "no_location_data"))
       /\ stats.failed = Cardinality(FreshWith(1, "error"))
       /\ FromCache(stats) = Cardinality(CachedIn(1))
       /\ stats.success + stats.no_data + stats.failed + FromCache(stats) = stats.total
       /\ stats.total = Len(library)

\* a first run has returned in which one artist came from the cache and
\* another was answered by the directory after a re-attempt
C25_Witness ==
    /\ epc = "returned" /\ run = 1
    /\ \E a, b \in LibNames :
          /\ WasCached(log[1][a])
          /\ Len(log[1][b].resp) >= 2
          /\ ~IsError(log[1][b].out)

----------------------------------------------------------------------------
(* C26: geocoder outcome partition                                         *)

\* the places of the output: a coordinate and an index into its list
OutputPlaces ==
    UNION {{<<c, k>> : k \in 1..Len(artist_locations[c])} : c \in DOMAIN artist_locations}

NameAt(p) == artist_locations[p[1]][p[2]]

\* C26: when _process_artist_locations has returned, from_cache,
\* successful_geocodes, failed_geocodes and empty_locations add up to the
\* number of artists whose origin status is success,
\* successful_retry_geocodes is at most successful_geocodes, and the output
\* lists hold from_cache + successful_geocodes names, no name twice.
C26_OutcomePartition ==
    gpc = "returned" =>
       /\ gstats.from_cache + gstats.successful_geocodes
             + gstats.failed_geocodes + gstats.empty_locations
          = CountItems(SuccessOrigin)
       /\ gstats.successful_retry_geocodes <= gstats.successful_geocodes
       /\ Cardinality(OutputPlaces) = gstats.from_cache + gstats.successful_geocodes
       /\ \A p, q \in OutputPlaces : NameAt(p) = NameAt(q) => p = q

\* a library was processed in which two artists share a coordinate, one
\* answered from the cache and one by the service
C26_Witness ==
    /\ gpc = "returned"
    /\ \E c \in DOMAIN artist_locations : Len(artist_locations[c]) = 2
    /\ gstats.from_cache >= 1
    /\ gstats.successful_geocodes >= 1

----------------------------------------------------------------------------
(* C27: failures are never cached and caches only grow                     *)

\* c2 is c1 with the one new key k, holding v
GrownBy(c1, c2, k, v) ==
    /\ k \notin DOMAIN c1
    /\ DOMAIN c2 = DOMAIN c1 \cup {k}
    /\ \A x \in DOMAIN c1 : c2[x] = c1[x]
    /\ c2[k] = v

\* a later lookup of the string of lookup i was made
LookedUpAgain(i) ==
    \E j \in GeoItems : j > i /\ glog[j].called /\ glog[j].str = glog[i].str

\* C27: a resolver lookup that ends in an error and a geocode lookup that
\* ends without a coordinate leave the cache and the cache file as they
\* were, and their key stays absent until a later lookup of it; a cache
\* changes only by gaining an absent key with the non-error result just
\* obtained for it.
C27_FailuresNotCached ==
    /\ [](/\ \A a \in LibNames :
                (run >= 1 /\ Returned(run, a) /\ IsError(log[run][a].out)) =>
                   a \notin DOMAIN cache
          /\ \A i \in GeoItems :
                (glog[i].called /\ glog[i].out = PyNone /\ ~LookedUpAgain(i)) =>
                   glog[i].str \notin DOMAIN location_cache)
    /\ [][/\ cache' # cache =>
                \E a \in LibNames :
                   /\ GrownBy(cache, cache', a, task[a].data)
                   /\ ~IsError(task[a].data)
          /\ location_cache' # location_cache =>
                /\ location # PyNone
                /\ GrownBy(location_cache, location_cache', location_str, CoordsOf(location))
          /\ (run' = run /\ run >= 1) =>
                \A a \in LibNames :
                   (log'[run][a].out # log[run][a].out /\ IsError(log'[run][a].out)) =>
                      UNCHANGED <<cache, cache_file>>
          /\ (gi \in DOMAIN glog /\ DOMAIN glog' = DOMAIN glog) =>
                ((glog[gi].out # PyNone /\ glog'[gi].out = PyNone) =>
                    UNCHANGED <<location_cache, geo_cache_file>>)]_vars

\* a run has returned in which one artist ended in an error and the
\* descriptor of the other was added to the cache
C27_Witness ==
    /\ epc = "returned"
    /\ \E a, b \in LibNames :
          /\ IsError(log[run][a].out)
          /\ Learned(b)
          /\ DOMAIN cache = {b}

\* a geocode lookup has ended without a coordinate, after an exception
C27_WitnessGeocoder ==
    \E i \in GeoItems : EndedInException(i) /\ gpc = "returned"

====
